---- MODULE Spec2Model ----
(***************************************************************************)
(* Model of src/ai_server/godot_ai_server.py: the Command/Response wire    *)
(* codec, the RetryEngine, and AICommandDispatcher.execute_command /       *)
(* execute_batch driven by the outcomes of GodotAIClient.send_command.     *)
(*                                                                         *)
(* Python dicts are functions on a finite set of string keys.  An Optional *)
(* value is a sequence of length 0 (None) or 1.  datetime.now() is a       *)
(* logical clock that advances by one at every read.                       *)
(***************************************************************************)
EXTENDS Integers, Sequences, FiniteSets, TLC

VARIABLES
    retry_count,       \* RetryEngine.retry_count: request_id -> int
    retry_history,     \* RetryEngine.retry_history: list of attempt records
    pending_commands,  \* AICommandDispatcher.pending_commands: request_id -> Command
    command_history,   \* AICommandDispatcher.command_history: list of entries
    clock,             \* number of datetime.now() reads so far
    pc,                \* position of the dispatcher coroutine
    mode,              \* "none" | "single" (execute_command) | "batch" (execute_batch)
    command,           \* execute_command: the command argument (request_id assigned)
    attempts,          \* execute_command: local `attempts`
    response,          \* execute_command: local `response` (Optional)
    delay,             \* execute_command: local `delay` of the last backoff
    result,            \* value returned by execute_command (Optional)
    commands,          \* execute_batch: the `commands` argument
    batch_idx,         \* execute_batch: index of the command being executed
    results,           \* execute_batch: local `results`
    calls_left,        \* execute_command invocations the environment may still make
    replies_left,      \* replies the remote may still produce
    fails_left,        \* send_command calls that may still fail (Unlimited: any number)
    sleeps,            \* history: asyncio.sleep calls made by the current call
    seen,              \* history: kinds of send outcome seen by the current call
    fresh,             \* history: the call's request_id had no retry counter at its start
    call_logs,         \* history: _log_command invocations made by the current call
    batch_sent,        \* history: batch indices whose command was handed to send_command
    batch_returned,    \* history: what execute_command returned to execute_batch, in order
    codec,             \* codec round-trip experiment (off in the dispatcher runs)
    probe,             \* last direct call of a RetryEngine / PerformanceAnalyzer method
    steps_left,        \* direct method calls the environment may still make
    connected,         \* GodotAIClient.connected
    websocket,         \* GodotAIClient.websocket (Optional handle)
    tasks,             \* coroutines running GodotAIClient methods: task -> frame
    inbound,           \* frames the remote has sent that no recv() has taken yet
    outbound,          \* messages written to the socket by websocket.send, in order
    net,               \* the remote end: handles issued, commands answered, budgets
    callers,           \* execute_command coroutines running at the same time: caller -> frame
    xhist,             \* history of those calls: overlap, sends that gave up on a reply
    message_handlers,  \* GodotAIClient.message_handlers: list of callables
    deliveries         \* history: one entry per frame a receive_messages loop has taken

vars == <<retry_count, retry_history, pending_commands, command_history, clock,
          pc, mode, command, attempts, response, delay, result,
          commands, batch_idx, results, calls_left, replies_left, fails_left,
          sleeps, seen, fresh, call_logs, batch_sent, batch_returned, codec,
          probe, steps_left, connected, websocket, tasks, inbound, outbound, net,
          callers, xhist, message_handlers, deliveries>>

\* the dispatcher, its Retry Engine and its coroutine
DispatcherVars ==
    <<retry_count, retry_history, pending_commands, command_history, clock,
      pc, mode, command, attempts, response, delay, result,
      commands, batch_idx, results, calls_left, replies_left, fails_left,
      sleeps, seen, fresh, call_logs, batch_sent, batch_returned>>

\* the Connection Manager and its remote end
ClientVars == <<connected, websocket, tasks, inbound, outbound, net>>

\* the state outside the dispatcher and the codec experiment
\* execute_command calls that share the connection
CallVars == <<callers, xhist>>

\* the registered inbound-message handlers and what was fanned out to them
HandlerVars == <<message_handlers, deliveries>>

AuxVars == <<probe, steps_left, ClientVars, CallVars, HandlerVars>>

---------------------------------------------------------------------------
(* Bounds of the model *)

MaxCalls == 2        \* execute_command invocations per run
MaxReplies == 6      \* replies the remote produces per run
MaxFails == 1        \* send_command calls without a reply per run
MaxBatch == 2        \* longest list handed to execute_batch
MaxAttempts == 8     \* `attempts` and `sleeps` saturate here (they are unbounded ints)
RetryCalls == 1      \* execute_command invocations in the single-call runs
RetryReplies == 5    \* replies in the single-call runs
RetryFails == 0      \* send_command calls without a reply in the single-call runs
BatchCalls == 2      \* execute_command invocations in the short-reply runs
BatchReplies == 2    \* replies in the short-reply runs
BatchFails == 1      \* send_command calls without a reply in the short-reply runs
FullCalls == 1       \* execute_command invocations in the full-history runs
FullReplies == 2     \* replies in the full-history runs
FullFails == 1       \* send_command calls without a reply in the full-history runs
FairCalls == 1       \* execute_command invocations in the fair runs
FairReplies == 2     \* replies in the fair runs
EngineSteps == 7     \* direct RetryEngine method calls per run
ClientCalls == 3     \* GodotAIClient method calls per run
ClientFrames == 2    \* frames the remote sends per run
ClientFails == 2     \* connect attempts that fail per run
MaxConnects == 3     \* a reconnect_loop's attempt counter saturates here
ConcFrames == 2      \* frames the remote sends in the shared-connection runs
ConcErrors == 1      \* sends or receives that fail in the shared-connection runs
FairClientCalls == 2   \* GodotAIClient method calls in the fair runs
FairClientFrames == 1  \* frames the remote sends in the fair runs
FairClientFails == 2   \* connect attempts that fail in the fair runs
MaxHandlers == 2     \* longest list of registered handlers
RecvCalls == 4       \* GodotAIClient method calls in the receive runs
RecvFrames == 3      \* frames the remote sends in the receive runs
RecordCalls == 1     \* execute_command invocations in the recording runs
RecordReplies == 6   \* replies in the recording runs
RecordFails == 1     \* send_command calls without a reply in the recording runs
LifeCalls == 3       \* GodotAIClient method calls in the life-cycle runs
LifeFrames == 1      \* frames the remote sends in the life-cycle runs
LifeFails == 1       \* connect attempts that fail in the life-cycle runs
Unlimited == 0 - 1      \* value of fails_left when failures are not counted

(* Program constants *)

MAX_RETRIES == 5
RETRY_DELAY_BASE == 1
RETRY_DELAY_MAX == 10
HISTORY_MAX == 1000

---------------------------------------------------------------------------
(* Python built-ins *)

None == <<>>
Some(v) == <<v>>

EmptyDict == [k \in {} |-> ""]

\* d.get(k, default)
Get(d, k, default) == IF k \in DOMAIN d THEN d[k] ELSE default

\* d[k] = v
Put(d, k, v) == [x \in DOMAIN d \cup {k} |-> IF x = k THEN v ELSE d[x]]

\* d.update(e)
Update(d, e) == [x \in DOMAIN d \cup DOMAIN e |-> IF x \in DOMAIN e THEN e[x] ELSE d[x]]

\* {k: v for k, v in d.items() if k not in keys}
Without(d, keys) == [x \in DOMAIN d \ keys |-> d[x]]

\* del d[k]
Del(d, k) == [x \in DOMAIN d \ {k} |-> d[x]]

\* min(a, b)
Min(a, b) == IF a < b THEN a ELSE b

\* 2 ** n
RECURSIVE Pow2(_)
Pow2(n) == IF n = 0 THEN 1 ELSE 2 * Pow2(n - 1)

\* seq[-n:]
LastN(seq, n) == IF Len(seq) > n THEN SubSeq(seq, Len(seq) - n + 1, Len(seq)) ELSE seq

---------------------------------------------------------------------------
(* Message model: Command *)

Command(action, parameters, auto_run, request_id) ==
    [action |-> action, parameters |-> parameters,
     auto_run |-> auto_run, request_id |-> request_id]

Command_to_dict(c) ==
    LET r0 == Put(Put(EmptyDict, "action", c.action), "auto_run", c.auto_run)
        r1 == Update(r0, c.parameters)
    IN IF c.request_id # "" THEN Put(r1, "request_id", c.request_id) ELSE r1

\* faulty variant: auto_run is not among the keys kept out of the parameters
Command_from_dict_mut(data) ==
    Command(Get(data, "action", ""),
            Without(data, {"action", "request_id"}),
            Get(data, "auto_run", FALSE),
            Get(data, "request_id", ""))

Command_from_dict(data) ==
    Command(Get(data, "action", ""),
            Without(data, {"action", "auto_run", "request_id"}),
            Get(data, "auto_run", FALSE),
            Get(data, "request_id", ""))

(* Message model: Response *)

Response(status, action, error, error_type, error_details, data, timestamp) ==
    [status |-> status, action |-> action, error |-> error,
     error_type |-> error_type, error_details |-> error_details,
     data |-> data, timestamp |-> timestamp]

is_success(r) == r.status = "success"

\* faulty variant: every reply that is no success counts as an error
is_error_mut(r) == r.status # "success"

is_error(r) == r.status = "error"

Response_to_dict(r) ==
    LET r0 == Put(EmptyDict, "status", r.status)
        r1 == IF r.action # "" THEN Put(r0, "action", r.action) ELSE r0
        r2 == IF r.error # "" THEN Put(r1, "error", r.error) ELSE r1
        r3 == IF r.error_type # "" THEN Put(r2, "error_type", r.error_type) ELSE r2
        r4 == IF DOMAIN r.error_details # {}
              THEN Put(r3, "error_details", r.error_details) ELSE r3
    IN Update(r4, r.data)

Response_from_dict(data) ==
    Response(Get(data, "status", "unknown"),
             Get(data, "action", ""),
             Get(data, "error", ""),
             Get(data, "type", ""),
             Get(data, "error_details", EmptyDict),
             Without(data, {"status", "action", "error", "type", "error_details"}),
             Get(data, "timestamp", 0))

---------------------------------------------------------------------------
(* Retry Engine *)

\* faulty variant: one attempt too many is permitted
should_retry_mut(rc, request_id) == Get(rc, request_id, 0) <= MAX_RETRIES

should_retry(rc, request_id) == Get(rc, request_id, 0) < MAX_RETRIES

\* faulty variant: the delay is not capped
get_retry_delay_mut(rc, request_id) ==
    RETRY_DELAY_BASE * Pow2(Get(rc, request_id, 0))

get_retry_delay(rc, request_id) ==
    Min(RETRY_DELAY_BASE * Pow2(Get(rc, request_id, 0)), RETRY_DELAY_MAX)

\* faulty variant: the count starts over at every call
record_attempt_mut(rc, rh, now, request_id, cmd, resp) ==
    LET rc1 == Put(rc, request_id, 1)
    IN [retry_count |-> rc1,
        retry_history |-> Append(rh, [request_id |-> request_id,
                                      command |-> Command_to_dict(cmd),
                                      response |-> Response_to_dict(resp),
                                      attempt |-> rc1[request_id],
                                      timestamp |-> now])]

\* returns the engine's two fields after the call; `now` is datetime.now()
record_attempt(rc, rh, now, request_id, cmd, resp) ==
    LET rc0 == IF request_id \notin DOMAIN rc THEN Put(rc, request_id, 0) ELSE rc
        rc1 == [rc0 EXCEPT ![request_id] = @ + 1]
    IN [retry_count |-> rc1,
        retry_history |-> Append(rh, [request_id |-> request_id,
                                      command |-> Command_to_dict(cmd),
                                      response |-> Response_to_dict(resp),
                                      attempt |-> rc1[request_id],
                                      timestamp |-> now])]

\* faulty variant: the counter is kept
reset_mut(rc, request_id) == rc

reset(rc, request_id) == IF request_id \in DOMAIN rc THEN Del(rc, request_id) ELSE rc

can_continue(rc, request_id) == should_retry(rc, request_id)

get_retry_info(rc, request_id) ==
    [request_id |-> request_id,
     current_attempt |-> Get(rc, request_id, 0),
     max_attempts |-> MAX_RETRIES,
     can_retry |-> should_retry(rc, request_id)]

---------------------------------------------------------------------------
(* Connection Manager, as seen by the caller of send_command *)

\* wire messages the remote editor may answer with
ReplyWires ==
    { [status |-> "success", action |-> "add_node"],
      [status |-> "error", error |-> "parse error", type |-> "compile"],
      [status |-> "error", error |-> "null instance", type |-> "runtime"],
      [status |-> "error", error |-> "bad command", type |-> "invalid_syntax"],
      [status |-> "pending"] }

\* what can happen to one send_command call
SendEvents ==
    { [kind |-> k, wire |-> EmptyDict] : k \in {"not_connected", "timeout", "exception"} }
    \cup { [kind |-> "reply", wire |-> w] : w \in ReplyWires }

\* faulty variant: a timeout is reported as an error Response
send_command_mut(cmd, ev) ==
    IF ev.kind = "timeout"
    THEN Some(Response_from_dict([status |-> "error", error |-> "timeout"]))
    ELSE IF ev.kind = "reply" THEN Some(Response_from_dict(ev.wire))
    ELSE None

send_command(cmd, ev) ==
    IF ev.kind = "not_connected" THEN None
    ELSE IF ev.kind = "timeout" THEN None
    ELSE IF ev.kind = "exception" THEN None
    ELSE Some(Response_from_dict(ev.wire))

\* coroutines that may call the manager's methods at the same time
Tasks == {"t1", "t2"}

NoFrame == [kind |-> "none", wire |-> EmptyDict, re |-> 0]

\* frame of a coroutine: the method it runs, its position, its argument, the
\* value it returned, and history: whether the manager was connected with a
\* handle when the method was called, why send_command returned what it did,
\* the frame it took, the number of messages it wrote and the position of its
\* message in `outbound`, the connect attempts and sleeps of reconnect_loop and
\* the length of its last sleep; `ws` is the handle a receive_messages loop
\* iterates over
IdleTask ==
    [op |-> "none", pc |-> "idle", command |-> Command("", EmptyDict, FALSE, ""),
     ret |-> None, ready |-> FALSE, why |-> "", got |-> NoFrame,
     sent |-> 0, at |-> 0, connects |-> 0, sleeps |-> 0, slept |-> 0, ws |-> None]

RECONNECT_DELAY == 2

\* commands handed to send_command
ClientCommands ==
    { [action |-> "add_node", parameters |-> EmptyDict, auto_run |-> FALSE,
       request_id |-> id] : id \in {"a", "b"} }

\* inbound frames: a JSON object, a JSON value that is no object, or no JSON
\* at all; `re` is the position in `outbound` of the command the remote
\* answers with the frame (0: none)
JsonFrame(w, k) == [kind |-> "json", wire |-> w, re |-> k]

ListFrame == [kind |-> "list", wire |-> EmptyDict, re |-> 0]

GarbageFrame == [kind |-> "garbage", wire |-> EmptyDict, re |-> 0]

ClientWires ==
    { [status |-> "success", action |-> "add_node"],
      [status |-> "error", error |-> "parse error", type |-> "compile"] }

\* faulty variant: a failed connect reports success
connect_mut(ws, ok, h) ==
    IF ok THEN [websocket |-> Some(h), connected |-> TRUE, ret |-> Some(TRUE)]
    ELSE [websocket |-> ws, connected |-> FALSE, ret |-> Some(TRUE)]

\* connect (lines 324-339): the fields and the return value after
\* websockets.connect gave handle `h` (ok) or raised (not ok)
connect(ws, ok, h) ==
    IF ok THEN [websocket |-> Some(h), connected |-> TRUE, ret |-> Some(TRUE)]
    ELSE [websocket |-> ws, connected |-> FALSE, ret |-> Some(FALSE)]

\* json.loads and Response.from_dict on a received frame (lines 365-366), as
\* the send outcome of SendEvents
Received(f) ==
    IF f.kind = "json" THEN [kind |-> "reply", wire |-> f.wire]
    ELSE [kind |-> "exception", wire |-> EmptyDict]

Failed(k) == [kind |-> k, wire |-> EmptyDict]

\* faulty variant: the frame handed over stays in the queue
recv_mut(q) == [frame |-> Head(q), rest |-> q]

\* websocket.recv() with frames waiting: the oldest frame, whoever it was meant
\* for, and what stays in the queue
recv(q) == [frame |-> Head(q), rest |-> Tail(q)]

\* one failure of the connection fewer is left, unless they are not counted
Spend(n) == IF n.errors_left > 0 THEN [n EXCEPT !.errors_left = @ - 1] ELSE n

\* frame of one of several execute_command coroutines: position, locals, and
\* history: the frame its last send_command took and the position in `outbound`
\* of the message that send_command wrote
IdleCall ==
    [pc |-> "idle", command |-> Command("", EmptyDict, FALSE, ""), attempts |-> 0,
     response |-> None, delay |-> 0, result |-> None, got |-> NoFrame, at |-> 0]

ClientFrame == UNCHANGED <<DispatcherVars, codec, probe, CallVars, HandlerVars>>

\* await client.connect(): up to the await of websockets.connect
ConnectCall(t) ==
    /\ tasks[t].pc = "idle"
    /\ steps_left > 0
    /\ steps_left' = steps_left - 1
    /\ tasks' = [tasks EXCEPT ![t] = [IdleTask EXCEPT !.op = "connect", !.pc = "connecting"]]
    /\ UNCHANGED <<connected, websocket, inbound, outbound, net>>
    /\ ClientFrame

\* websockets.connect returns a handle or raises
ConnectResolve(t) ==
    /\ tasks[t].op = "connect"
    /\ tasks[t].pc = "connecting"
    /\ \E ok \in BOOLEAN :
         /\ ~ok => net.fails_left # 0
         /\ LET c == connect(websocket, ok, net.handle + 1)
            IN /\ websocket' = c.websocket
               /\ connected' = c.connected
               /\ tasks' = [tasks EXCEPT ![t].pc = "done", ![t].ret = c.ret]
         /\ net' = IF ok THEN [net EXCEPT !.handle = @ + 1, !.answered = Len(outbound)]
                    ELSE IF net.fails_left > 0 THEN [net EXCEPT !.fails_left = @ - 1]
                    ELSE net
         /\ inbound' = IF ok THEN <<>> ELSE inbound
    /\ UNCHANGED <<outbound, steps_left>>
    /\ ClientFrame

\* await client.disconnect(): up to the await of websocket.close, or to the end
DisconnectCall(t) ==
    /\ tasks[t].pc = "idle"
    /\ steps_left > 0
    /\ steps_left' = steps_left - 1
    /\ IF websocket # None
       THEN /\ tasks' = [tasks EXCEPT ![t] =
                            [IdleTask EXCEPT !.op = "disconnect", !.pc = "closing"]]
            /\ UNCHANGED connected
       ELSE /\ connected' = FALSE
            /\ tasks' = [tasks EXCEPT ![t] =
                            [IdleTask EXCEPT !.op = "disconnect", !.pc = "done"]]
    /\ UNCHANGED <<websocket, inbound, outbound, net>>
    /\ ClientFrame

\* faulty variant: the handle is dropped and the flag is left as it was
disconnect_mut(conn) == [websocket |-> None, connected |-> conn]

\* disconnect after websocket.close() (lines 345-346): the two fields
disconnect(conn) == [websocket |-> None, connected |-> FALSE]

\* websocket.close() is over: lines 345-346
DisconnectResolve(t) ==
    /\ tasks[t].op = "disconnect"
    /\ tasks[t].pc = "closing"
    /\ websocket' = disconnect(connected).websocket
    /\ connected' = disconnect(connected).connected
    /\ tasks' = [tasks EXCEPT ![t].pc = "done"]
    /\ UNCHANGED <<inbound, outbound, net, steps_left>>
    /\ ClientFrame

\* await client.send_command(cmd): lines 351-358, up to the await of websocket.send
SendCommandStart(t, cmd) ==
    IF ~connected \/ websocket = None
    THEN tasks' = [tasks EXCEPT ![t] =
                     [IdleTask EXCEPT !.op = "send_command", !.pc = "done",
                                      !.command = cmd, !.why = "not_connected",
                                      !.ret = send_command(cmd, Failed("not_connected"))]]
    ELSE tasks' = [tasks EXCEPT ![t] =
                     [IdleTask EXCEPT !.op = "send_command", !.pc = "sending",
                                      !.command = cmd, !.ready = TRUE]]

SendCommandCall(t) ==
    /\ tasks[t].pc = "idle"
    /\ callers[t].pc = "idle"
    /\ steps_left > 0
    /\ steps_left' = steps_left - 1
    /\ \E cmd \in ClientCommands : SendCommandStart(t, cmd)
    /\ UNCHANGED <<connected, websocket, inbound, outbound, net>>
    /\ ClientFrame

\* websocket.send returns or raises; if it returned, websocket.recv is called
\* (lines 358-364), which fails at once when the handle is gone
SendCommandSent(t) ==
    /\ tasks[t].op = "send_command"
    /\ tasks[t].pc = "sending"
    /\ \E ok \in BOOLEAN :
         IF ~ok
         THEN /\ net.errors_left # 0
              /\ net' = Spend(net)
              /\ tasks' = [tasks EXCEPT ![t].pc = "done", ![t].why = "send_exception",
                                        ![t].ret = send_command(tasks[t].command,
                                                                Failed("exception"))]
              /\ UNCHANGED outbound
         ELSE /\ outbound' = Append(outbound, Command_to_dict(tasks[t].command))
              /\ UNCHANGED net
              /\ IF websocket = None
                 THEN tasks' = [tasks EXCEPT ![t].pc = "done", ![t].sent = 1,
                                             ![t].at = Len(outbound) + 1,
                                             ![t].why = "recv_exception",
                                             ![t].ret = send_command(tasks[t].command,
                                                                     Failed("exception"))]
                 ELSE tasks' = [tasks EXCEPT ![t].pc = "receiving", ![t].sent = 1,
                                             ![t].at = Len(outbound) + 1]
    /\ UNCHANGED <<connected, websocket, inbound, steps_left>>
    /\ ClientFrame

\* asyncio.wait_for(websocket.recv(), 30.0) is over: the next inbound frame, the
\* timeout when there is none, or an exception; then lines 365-377
SendCommandReceived(t) ==
    /\ tasks[t].op = "send_command"
    /\ tasks[t].pc = "receiving"
    /\ \/ /\ inbound # <<>>
          /\ inbound' = recv(inbound).rest
          /\ tasks' = [tasks EXCEPT
                          ![t].pc = "done",
                          ![t].why = IF recv(inbound).frame.kind = "json" THEN "reply"
                                     ELSE "decode_exception",
                          ![t].got = recv(inbound).frame,
                          ![t].ret = send_command(tasks[t].command,
                                                  Received(recv(inbound).frame))]
          /\ UNCHANGED net
       \/ /\ inbound = <<>>
          /\ net.errors_left # 0
          /\ net' = Spend(net)
          /\ \E k \in {"timeout", "exception"} :
               tasks' = [tasks EXCEPT
                           ![t].pc = "done",
                           ![t].why = IF k = "timeout" THEN "timeout" ELSE "recv_exception",
                           ![t].ret = send_command(tasks[t].command, Failed(k))]
          /\ UNCHANGED inbound
    /\ UNCHANGED <<connected, websocket, outbound, steps_left>>
    /\ ClientFrame

\* await client.reconnect_loop(): the first test of `while not self.connected`
\* and, when it passes, up to the await inside connect()
ReconnectLoopCall(t) ==
    /\ tasks[t].pc = "idle"
    /\ steps_left > 0
    /\ steps_left' = steps_left - 1
    /\ tasks' = [tasks EXCEPT ![t] =
                    IF connected
                    THEN [IdleTask EXCEPT !.op = "reconnect_loop", !.pc = "done",
                                          !.ready = TRUE]
                    ELSE [IdleTask EXCEPT !.op = "reconnect_loop", !.pc = "connecting",
                                          !.connects = 1]]
    /\ UNCHANGED <<connected, websocket, inbound, outbound, net>>
    /\ ClientFrame

\* connect() returns inside reconnect_loop: break, or sleep RECONNECT_DELAY
ReconnectLoopResolve(t) ==
    /\ tasks[t].op = "reconnect_loop"
    /\ tasks[t].pc = "connecting"
    /\ \E ok \in BOOLEAN :
         /\ ~ok => net.fails_left # 0
         /\ LET c == connect(websocket, ok, net.handle + 1)
            IN /\ websocket' = c.websocket
               /\ connected' = c.connected
               /\ tasks' = IF c.ret = Some(TRUE)
                           THEN [tasks EXCEPT ![t].pc = "done"]
                           ELSE [tasks EXCEPT ![t].pc = "sleeping",
                                              ![t].sleeps = Min(@ + 1, MaxConnects),
                                              ![t].slept = RECONNECT_DELAY]
         /\ net' = IF ok THEN [net EXCEPT !.handle = @ + 1, !.answered = Len(outbound)]
                    ELSE IF net.fails_left > 0 THEN [net EXCEPT !.fails_left = @ - 1]
                    ELSE net
         /\ inbound' = IF ok THEN <<>> ELSE inbound
    /\ UNCHANGED <<outbound, steps_left>>
    /\ ClientFrame

\* asyncio.sleep(RECONNECT_DELAY) is over: the loop test again
ReconnectLoopWake(t) ==
    /\ tasks[t].op = "reconnect_loop"
    /\ tasks[t].pc = "sleeping"
    /\ tasks' = IF connected
                THEN [tasks EXCEPT ![t].pc = "done"]
                ELSE [tasks EXCEPT ![t].pc = "connecting",
                                   ![t].connects = Min(@ + 1, MaxConnects)]
    /\ UNCHANGED <<connected, websocket, inbound, outbound, net, steps_left>>
    /\ ClientFrame

\* the caller takes the return value; the coroutine is gone
TaskReturn(t) ==
    /\ tasks[t].pc = "done"
    /\ callers[t].pc = "idle"
    /\ tasks' = [tasks EXCEPT ![t] = IdleTask]
    /\ UNCHANGED <<connected, websocket, inbound, outbound, net, steps_left>>
    /\ ClientFrame

\* the remote writes a frame to the connection: the answer to the oldest
\* command it has not answered yet, or something nobody asked for
RemoteSend ==
    /\ websocket # None
    /\ net.closed # net.handle
    /\ net.frames_left > 0
    /\ \/ /\ net.answered < Len(outbound)
          /\ \E w \in ClientWires :
               inbound' = Append(inbound, JsonFrame(w, net.answered + 1))
          /\ net' = [net EXCEPT !.answered = @ + 1, !.frames_left = @ - 1]
       \/ /\ \E f \in {ListFrame, GarbageFrame} : inbound' = Append(inbound, f)
          /\ net' = [net EXCEPT !.frames_left = @ - 1]
    /\ UNCHANGED <<connected, websocket, tasks, outbound, steps_left>>
    /\ ClientFrame

\* handlers a capability holder may register
Handlers == {"h1", "h2"}

\* a binary frame whose bytes are not UTF-8 text
BinaryFrame == [kind |-> "binary", wire |-> EmptyDict, re |-> 0]

\* json.loads(message) (line 384): the decoded value, or the exception raised.
\* A JSON text that is no object decodes as well; text that is no JSON raises
\* JSONDecodeError; bytes that are no UTF-8 raise UnicodeDecodeError.
json_loads(f) ==
    IF f.kind = "json" THEN [raised |-> "", data |-> [type |-> "dict", value |-> f.wire]]
    ELSE IF f.kind = "list" THEN [raised |-> "", data |-> [type |-> "list", value |-> f.wire]]
    ELSE [raised |-> IF f.kind = "garbage" THEN "JSONDecodeError" ELSE "UnicodeDecodeError",
          data |-> [type |-> "none", value |-> EmptyDict]]

\* for handler in self.message_handlers: handler(data) (lines 385-386): the
\* calls made, in order
fan_out(handlers, data) ==
    [i \in 1..Len(handlers) |-> [handler |-> handlers[i], data |-> data]]

\* the body of the receive loop for one message (lines 383-388): the handler
\* calls made, and the exception that leaves the loop ("" = none)
receive_one(f, handlers) ==
    LET j == json_loads(f)
    IN IF j.raised = "" THEN [calls |-> fan_out(handlers, j.data), raised |-> ""]
       ELSE IF j.raised = "JSONDecodeError" THEN [calls |-> <<>>, raised |-> ""]
       ELSE [calls |-> <<>>, raised |-> j.raised]

\* list.remove(h): the list without its first occurrence of h
RECURSIVE ListRemove(_, _)
ListRemove(l, h) ==
    IF l = <<>> THEN <<>>
    ELSE IF Head(l) = h THEN Tail(l)
    ELSE <<Head(l)>> \o ListRemove(Tail(l), h)

add_message_handler(l, h) == Append(l, h)

remove_message_handler(l, h) ==
    IF \E i \in 1..Len(l) : l[i] = h THEN ListRemove(l, h) ELSE l

\* client.add_message_handler(h)
AddMessageHandler ==
    /\ Len(message_handlers) < MaxHandlers
    /\ steps_left > 0
    /\ steps_left' = steps_left - 1
    /\ \E h \in Handlers : message_handlers' = add_message_handler(message_handlers, h)
    /\ UNCHANGED <<deliveries, ClientVars>>
    /\ UNCHANGED <<DispatcherVars, codec, probe, CallVars>>

\* client.remove_message_handler(h)
RemoveMessageHandler ==
    /\ steps_left > 0
    /\ steps_left' = steps_left - 1
    /\ \E h \in Handlers : message_handlers' = remove_message_handler(message_handlers, h)
    /\ UNCHANGED <<deliveries, ClientVars>>
    /\ UNCHANGED <<DispatcherVars, codec, probe, CallVars>>

\* await client.receive_messages(): `async for` takes the iterator of the
\* handle the manager holds now (line 382); with no handle it raises TypeError,
\* which no except clause of the method catches
ReceiveMessagesCall(t) ==
    /\ tasks[t].pc = "idle"
    /\ callers[t].pc = "idle"
    /\ steps_left > 0
    /\ steps_left' = steps_left - 1
    /\ tasks' = [tasks EXCEPT ![t] =
                    IF websocket = None
                    THEN [IdleTask EXCEPT !.op = "receive_messages", !.pc = "done",
                                          !.why = "TypeError"]
                    ELSE [IdleTask EXCEPT !.op = "receive_messages", !.pc = "iterating",
                                          !.ready = TRUE, !.ws = websocket]]
    /\ UNCHANGED <<connected, websocket, inbound, outbound, net, HandlerVars>>
    /\ UNCHANGED <<DispatcherVars, codec, probe, CallVars>>

\* the iterator hands over the next message and the loop body runs (lines
\* 383-388), or the iteration ends: ConnectionClosed is raised (lines 389-391),
\* the iterator is exhausted after a clean close, or another exception is raised
ReceiveMessagesNext(t) ==
    /\ tasks[t].op = "receive_messages"
    /\ tasks[t].pc = "iterating"
    /\ \/ /\ tasks[t].ws = websocket
          /\ inbound # <<>>
          /\ LET f == recv(inbound).frame
                 r == receive_one(f, message_handlers)
             IN /\ inbound' = recv(inbound).rest
                /\ deliveries' = Append(deliveries, [frame |-> f,
                                                     handlers |-> message_handlers,
                                                     calls |-> r.calls])
                /\ tasks' = IF r.raised = ""
                            THEN tasks
                            ELSE [tasks EXCEPT ![t].got = f, ![t].pc = "done",
                                               ![t].why = r.raised]
          /\ UNCHANGED <<connected, net>>
       \/ /\ tasks[t].ws # websocket \/ inbound = <<>>
          /\ \E k \in {"ConnectionClosed", "exhausted", "Exception"} :
               /\ tasks' = [tasks EXCEPT ![t].pc = "done", ![t].why = k]
               /\ connected' = IF k = "ConnectionClosed" THEN FALSE ELSE connected
               /\ net' = IF tasks[t].ws = websocket /\ k # "Exception"
                         THEN [net EXCEPT !.closed = net.handle]
                         ELSE net
          /\ UNCHANGED <<inbound, deliveries>>
    /\ UNCHANGED <<websocket, outbound, steps_left, message_handlers>>
    /\ UNCHANGED <<DispatcherVars, codec, probe, CallVars>>

\* the remote writes a frame nobody asked for: an event, or bytes that are no text
RemotePush ==
    /\ websocket # None
    /\ net.closed # net.handle
    /\ net.frames_left > 0
    /\ \E f \in {JsonFrame([type |-> "scene_changed"], 0), GarbageFrame, BinaryFrame} :
         inbound' = Append(inbound, f)
    /\ net' = [net EXCEPT !.frames_left = @ - 1]
    /\ UNCHANGED <<connected, websocket, tasks, outbound, steps_left>>
    /\ ClientFrame

---------------------------------------------------------------------------
(* Command Dispatcher *)

\* request ids uuid4 may produce
GenIds == {"req_1"}

_generate_request_id == GenIds

\* request ids callers put on their commands ("" = none)
CallerIds == {"", "a"}

CallCommands ==
    { Command("add_node", Put(EmptyDict, "name", "Player"), FALSE, id) : id \in CallerIds }

NoCommand == Command("", EmptyDict, FALSE, "")

CommunicationFailure ==
    Response("error", "", "Failed to communicate with Godot Editor", "communication",
             EmptyDict, EmptyDict, 0)

\* faulty variant: a further error type is retried
RetryableErrorTypes_mut == {"compile", "runtime", "invalid_syntax"}

\* the error types execute_command retries (line 460)
RetryableErrorTypes == {"compile", "runtime"}

\* faulty variant: a full history keeps its oldest entries and drops the new one
_log_command_mut(hist, now, cmd, resp, n) ==
    LET entry == [command |-> Command_to_dict(cmd),
                  response |-> Response_to_dict(resp),
                  attempts |-> n,
                  timestamp |-> now]
        h == Append(hist, entry)
    IN IF Len(h) > HISTORY_MAX THEN SubSeq(h, 1, HISTORY_MAX) ELSE h

\* returns command_history after the call; `now` is datetime.now()
_log_command(hist, now, cmd, resp, n) ==
    LET entry == [command |-> Command_to_dict(cmd),
                  response |-> Response_to_dict(resp),
                  attempts |-> n,
                  timestamp |-> now]
        h == Append(hist, entry)
    IN IF Len(h) > HISTORY_MAX THEN LastN(h, HISTORY_MAX) ELSE h

\* The body of execute_command's loop after send_command has returned `resp`
\* (lines 434-468), up to the next suspension point or return: the values of
\* the state it touches, `pc` the position it stops at, `logged` the number of
\* _log_command calls it made.
LoopBodyOf(cmd, n, d, resp) ==
    LET rid == cmd.request_id
        base == [retry_count |-> retry_count, retry_history |-> retry_history,
                 command_history |-> command_history, clock |-> clock,
                 pc |-> "send", delay |-> d, result |-> None, logged |-> 0]
    IN IF resp = None
       THEN IF can_continue(retry_count, rid)
            THEN [base EXCEPT !.pc = "sleep",
                              !.delay = get_retry_delay(retry_count, rid)]
            ELSE [base EXCEPT !.pc = "returned",
                              !.result = Some(CommunicationFailure)]
       ELSE LET r == resp[1]
                rec == record_attempt(retry_count, retry_history, clock + 1,
                                      rid, cmd, r)
                b1 == [base EXCEPT !.retry_count = rec.retry_count,
                                   !.retry_history = rec.retry_history,
                                   !.clock = clock + 1]
                logged == [b1 EXCEPT
                             !.command_history =
                                 _log_command(command_history, clock + 2, cmd, r, n),
                             !.clock = clock + 2,
                             !.logged = 1,
                             !.pc = "returned",
                             !.result = Some(r)]
            IN IF is_success(r)
               THEN [logged EXCEPT !.retry_count = reset(rec.retry_count, rid)]
               ELSE IF is_error(r)
               THEN IF r.error_type \in RetryableErrorTypes
                       /\ can_continue(rec.retry_count, rid)
                    THEN [b1 EXCEPT !.pc = "sleep",
                                    !.delay = get_retry_delay(rec.retry_count, rid)]
                    ELSE logged
               ELSE b1

\* the loop body of the dispatcher's one coroutine
LoopBody(resp) == LoopBodyOf(command, attempts, delay, resp)

\* kind of a send outcome, for the history variable `seen`
Kind(resp) ==
    IF resp = None THEN "none"
    ELSE IF is_success(resp[1]) THEN "success"
    ELSE IF ~is_error(resp[1]) THEN "unknown"
    ELSE IF resp[1].error_type \in {"compile", "runtime"} THEN resp[1].error_type
    ELSE "other"

Sat(n) == IF n < MaxAttempts THEN n ELSE MaxAttempts

\* execute_command lines 423-428: take ownership of `c` under request id `rid`
StartCall(c, rid) ==
    /\ command' = [c EXCEPT !.request_id = rid]
    /\ pending_commands' = Put(pending_commands, rid, [c EXCEPT !.request_id = rid])
    /\ attempts' = 0
    /\ response' = None
    /\ delay' = 0
    /\ result' = None
    /\ pc' = "send"
    /\ sleeps' = 0
    /\ seen' = {}
    /\ fresh' = (rid \notin DOMAIN retry_count)
    /\ call_logs' = 0
    /\ calls_left' = calls_left - 1

\* the frame of execute_command is gone
DropFrame ==
    /\ command' = NoCommand
    /\ attempts' = 0
    /\ response' = None
    /\ delay' = 0
    /\ result' = None
    /\ sleeps' = 0
    /\ seen' = {}
    /\ fresh' = FALSE
    /\ call_logs' = 0

RequestIdFor(c) == IF c.request_id # "" THEN {c.request_id} ELSE _generate_request_id

\* a caller invokes execute_command(c)
ExecuteCommand ==
    /\ pc = "idle"
    /\ calls_left > 0
    /\ \E c \in CallCommands : \E rid \in RequestIdFor(c) : StartCall(c, rid)
    /\ mode' = "single"
    /\ UNCHANGED <<retry_count, retry_history, command_history, clock,
                   commands, batch_idx, results, replies_left, fails_left, batch_sent,
                   batch_returned, codec, AuxVars>>

Batches == UNION { [1..n -> CallCommands] : n \in 0..MaxBatch }

\* a caller invokes execute_batch(cs): up to the first suspension point
ExecuteBatch ==
    /\ pc = "idle"
    /\ \E cs \in Batches :
         /\ Len(cs) <= calls_left
         /\ results' = <<>>
         /\ batch_sent' = {}
         /\ batch_returned' = <<>>
         /\ mode' = "batch"
         /\ IF cs = <<>>
            THEN /\ commands' = cs
                 /\ batch_idx' = 0
                 /\ pc' = "batch_done"
                 /\ UNCHANGED <<command, pending_commands, attempts, response, delay,
                                result, sleeps, seen, fresh, call_logs, calls_left>>
            ELSE \E rid \in RequestIdFor(cs[1]) :
                 /\ StartCall(cs[1], rid)
                 /\ commands' = [cs EXCEPT ![1].request_id = rid]
                 /\ batch_idx' = 1
    /\ UNCHANGED <<retry_count, retry_history, command_history, clock,
                   replies_left, fails_left, codec, AuxVars>>

\* execute_command lines 429-432: next loop iteration, up to the await in send_command
SendCommand ==
    /\ pc = "send"
    /\ attempts' = Sat(attempts + 1)
    /\ pc' = "await"
    /\ batch_sent' = IF mode = "batch" THEN batch_sent \cup {batch_idx} ELSE batch_sent
    /\ UNCHANGED <<retry_count, retry_history, pending_commands, command_history, clock,
                   mode, command, response, delay, result, commands, batch_idx, results,
                   calls_left, replies_left, fails_left, sleeps, seen, fresh, call_logs,
                   batch_returned, codec, AuxVars>>

\* send_command returns and execute_command runs to its next suspension point
Reply ==
    /\ pc = "await"
    /\ \E ev \in SendEvents :
         /\ ev.kind = "reply" => replies_left > 0
         /\ ev.kind # "reply" => fails_left # 0
         /\ replies_left' = IF ev.kind = "reply" THEN replies_left - 1 ELSE replies_left
         /\ fails_left' = IF ev.kind # "reply" /\ fails_left > 0
                          THEN fails_left - 1 ELSE fails_left
         /\ LET resp == send_command(command, ev)
                out == LoopBody(resp)
            IN /\ response' = resp
               /\ retry_count' = out.retry_count
               /\ retry_history' = out.retry_history
               /\ command_history' = out.command_history
               /\ clock' = out.clock
               /\ pc' = out.pc
               /\ delay' = out.delay
               /\ result' = out.result
               /\ call_logs' = call_logs + out.logged
               /\ sleeps' = IF out.pc = "sleep" THEN Sat(sleeps + 1) ELSE sleeps
               /\ seen' = seen \cup {Kind(resp)}
    /\ UNCHANGED <<pending_commands, mode, command, attempts, commands, batch_idx,
                   results, calls_left, fresh, batch_sent, batch_returned, codec, AuxVars>>

\* asyncio.sleep(delay) is over: `continue`
Wake ==
    /\ pc = "sleep"
    /\ pc' = "send"
    /\ UNCHANGED <<retry_count, retry_history, pending_commands, command_history, clock,
                   mode, command, attempts, response, delay, result, commands, batch_idx,
                   results, calls_left, replies_left, fails_left, sleeps, seen, fresh, call_logs,
                   batch_sent, batch_returned, codec, AuxVars>>

\* faulty variant: the batch does not stop at an error response
BatchStep_mut(res, r, idx, n) ==
    [results |-> Append(res, r), stop |-> idx = n]

\* execute_batch lines 477-482: the loop body after execute_command returned `r`,
\* as [results, stop]
BatchStep(res, r, idx, n) ==
    [results |-> Append(res, r), stop |-> is_error(r) \/ idx = n]

\* execute_command hands its Response to its caller
Return ==
    /\ pc = "returned"
    /\ IF mode = "single"
       THEN /\ pc' = "idle"
            /\ mode' = "none"
            /\ DropFrame
            /\ UNCHANGED <<pending_commands, commands, batch_idx, results, calls_left,
                           batch_returned>>
       ELSE LET b == BatchStep(results, result[1], batch_idx, Len(commands))
            IN /\ results' = b.results
               /\ batch_returned' = Append(batch_returned, result[1])
               /\ mode' = mode
               /\ IF b.stop
                  THEN /\ pc' = "batch_done"
                       /\ DropFrame
                       /\ UNCHANGED <<pending_commands, commands, batch_idx, calls_left>>
                  ELSE \E rid \in RequestIdFor(commands[batch_idx + 1]) :
                       /\ StartCall(commands[batch_idx + 1], rid)
                       /\ commands' = [commands EXCEPT ![batch_idx + 1].request_id = rid]
                       /\ batch_idx' = batch_idx + 1
    /\ UNCHANGED <<retry_count, retry_history, command_history, clock,
                   replies_left, fails_left, batch_sent, codec, AuxVars>>

\* execute_batch hands `results` to its caller
BatchReturn ==
    /\ pc = "batch_done"
    /\ pc' = "idle"
    /\ mode' = "none"
    /\ commands' = <<>>
    /\ batch_idx' = 0
    /\ results' = <<>>
    /\ batch_sent' = {}
    /\ batch_returned' = <<>>
    /\ UNCHANGED <<retry_count, retry_history, pending_commands, command_history, clock,
                   command, attempts, response, delay, result, calls_left, replies_left,
                   fails_left, sleeps, seen, fresh, call_logs, codec, AuxVars>>

CodecOff == [stage |-> "off"]

NoProbe == [op |-> "none"]

NoCalls ==
    /\ callers = [c \in Tasks |-> IdleCall]
    /\ xhist = [overlap |-> FALSE, gave_up |-> FALSE]

\* GodotAIClient.__init__, with a remote end that may fail `fails` connects and
\* send `frames` frames
ClientAfterInit(fails, frames) ==
    /\ NoCalls
    /\ message_handlers = <<>>
    /\ deliveries = <<>>
    /\ connected = FALSE
    /\ websocket = None
    /\ tasks = [t \in Tasks |-> IdleTask]
    /\ inbound = <<>>
    /\ outbound = <<>>
    /\ net = [handle |-> 0, answered |-> 0, fails_left |-> fails, frames_left |-> frames,
              errors_left |-> Unlimited, closed |-> 0]

\* nothing outside the dispatcher is running
AuxOff ==
    /\ probe = NoProbe
    /\ steps_left = 0
    /\ ClientAfterInit(0, 0)

\* the dispatcher after `n` earlier successful executions of a command with id "a"
OldCommand == Command("add_node", Put(EmptyDict, "name", "Player"), FALSE, "a")

OldResponse == Response_from_dict([status |-> "success", action |-> "add_node"])

DispatcherAfter(n, calls, replies, fails) ==
    /\ retry_count = EmptyDict
    /\ retry_history = [i \in 1..n |-> [request_id |-> "a",
                                         command |-> Command_to_dict(OldCommand),
                                         response |-> Response_to_dict(OldResponse),
                                         attempt |-> 1,
                                         timestamp |-> 2 * i - 1]]
    /\ pending_commands = IF n = 0 THEN EmptyDict ELSE Put(EmptyDict, "a", OldCommand)
    /\ command_history = [i \in 1..n |-> [command |-> Command_to_dict(OldCommand),
                                           response |-> Response_to_dict(OldResponse),
                                           attempts |-> 1,
                                           timestamp |-> 2 * i]]
    /\ clock = 2 * n
    /\ pc = "idle"
    /\ mode = "none"
    /\ command = NoCommand
    /\ attempts = 0
    /\ response = None
    /\ delay = 0
    /\ result = None
    /\ commands = <<>>
    /\ batch_idx = 0
    /\ results = <<>>
    /\ calls_left = calls
    /\ replies_left = replies
    /\ fails_left = fails
    /\ sleeps = 0
    /\ seen = {}
    /\ fresh = FALSE
    /\ call_logs = 0
    /\ batch_sent = {}
    /\ batch_returned = <<>>

\* the state after construction
Init == DispatcherAfter(0, MaxCalls, MaxReplies, MaxFails) /\ codec = CodecOff /\ AuxOff

Next ==
    \/ ExecuteCommand
    \/ ExecuteBatch
    \/ SendCommand
    \/ Reply
    \/ Wake
    \/ Return
    \/ BatchReturn

Spec == Init /\ [][Next]_vars

\* one call that may use up all its retries
InitRetry == DispatcherAfter(0, RetryCalls, RetryReplies, RetryFails) /\ codec = CodecOff /\ AuxOff

SpecRetry == InitRetry /\ [][Next]_vars

\* two calls, alone or in a batch, with few replies
InitBatch == DispatcherAfter(0, BatchCalls, BatchReplies, BatchFails) /\ codec = CodecOff /\ AuxOff

SpecBatch == InitBatch /\ [][Next]_vars

\* a dispatcher whose command_history is one short of full, or full
InitFull ==
    /\ \E n \in {HISTORY_MAX - 1, HISTORY_MAX} :
          DispatcherAfter(n, FullCalls, FullReplies, FullFails)
    /\ codec = CodecOff
    /\ AuxOff

SpecFull == InitFull /\ [][Next]_vars

\* the event loop runs every ready coroutine, and every send_command, sleep and
\* call returns (the 30 s timeout bounds the wait for a reply)
InitFair == DispatcherAfter(0, FairCalls, FairReplies, Unlimited) /\ codec = CodecOff /\ AuxOff

SpecFair ==
    /\ InitFair
    /\ [][Next]_vars
    /\ WF_vars(SendCommand)
    /\ WF_vars(Reply)
    /\ WF_vars(Wake)
    /\ WF_vars(Return)
    /\ WF_vars(BatchReturn)

\* execute_command called on its own, its sends answered up to six times and
\* failing once
InitRecord ==
    DispatcherAfter(0, RecordCalls, RecordReplies, RecordFails) /\ codec = CodecOff /\ AuxOff

NextCall ==
    \/ ExecuteCommand
    \/ SendCommand
    \/ Reply
    \/ Wake
    \/ Return

SpecRecord == InitRecord /\ [][NextCall]_vars

---------------------------------------------------------------------------
(* The wire codec on its own: encode a value, then decode the wire message *)

\* values a caller or the remote may store under key `k`
ValuesOf(k) ==
    IF k = "auto_run" THEN {TRUE, FALSE}
    ELSE IF k = "timestamp" THEN {0, 5}
    ELSE IF k = "request_id" THEN {"", "r2"}
    ELSE IF k = "error_details" THEN {EmptyDict, Put(EmptyDict, "line", 3)}
    ELSE IF k = "status" THEN {"success", "error", "pending"}
    ELSE IF k = "name" THEN {"Player"}
    ELSE {"x"}

\* all dicts whose keys are among `keys`
RECURSIVE Dicts(_)
Dicts(keys) ==
    IF keys = {} THEN {EmptyDict}
    ELSE LET k == CHOOSE x \in keys : TRUE
             rest == Dicts(keys \ {k})
         IN rest \cup { Put(d, k, v) : d \in rest, v \in ValuesOf(k) }

CommandReserved == {"action", "auto_run", "request_id"}

ResponseReserved == {"status", "action", "error", "type", "error_details"}

CodecCommands ==
    { Command(a, p, r, id) : a \in {"", "add_node"},
                             p \in Dicts({"name", "action", "auto_run", "request_id"}),
                             r \in BOOLEAN,
                             id \in {"", "r1"} }

CodecResponses ==
    { Response(st, a, e, t, det, d, ts) :
          st \in {"success", "error", "pending"},
          a \in {"", "add_node"},
          e \in {"", "boom"},
          t \in {"", "compile"},
          det \in ValuesOf("error_details"),
          d \in Dicts({"scene", "type", "error_type", "status"}),
          ts \in ValuesOf("timestamp") }

\* inbound wire mappings, as json.loads hands them to Response.from_dict
CodecWires == Dicts({"status", "type", "error", "scene"})

InitCodec ==
    /\ DispatcherAfter(0, 0, 0, 0)
    /\ codec \in { [stage |-> "input", kind |-> "command", obj |-> c] : c \in CodecCommands }
              \cup { [stage |-> "input", kind |-> "response", obj |-> r] :
                         r \in CodecResponses }
              \cup { [stage |-> "wire", kind |-> "reply", wire |-> w] : w \in CodecWires }
    /\ AuxOff

EncodeCommand ==
    /\ codec.stage = "input"
    /\ codec.kind = "command"
    /\ codec' = [stage |-> "wire", kind |-> "command", obj |-> codec.obj,
                 wire |-> Command_to_dict(codec.obj)]
    /\ UNCHANGED <<DispatcherVars, AuxVars>>

DecodeCommand ==
    /\ codec.stage = "wire"
    /\ codec.kind = "command"
    /\ codec' = [stage |-> "decoded", kind |-> "command", obj |-> codec.obj,
                 wire |-> codec.wire, back |-> Command_from_dict(codec.wire)]
    /\ UNCHANGED <<DispatcherVars, AuxVars>>

EncodeResponse ==
    /\ codec.stage = "input"
    /\ codec.kind = "response"
    /\ codec' = [stage |-> "wire", kind |-> "response", obj |-> codec.obj,
                 wire |-> Response_to_dict(codec.obj)]
    /\ UNCHANGED <<DispatcherVars, AuxVars>>

DecodeResponse ==
    /\ codec.stage = "wire"
    /\ codec.kind = "response"
    /\ codec' = [stage |-> "decoded", kind |-> "response", obj |-> codec.obj,
                 wire |-> codec.wire, back |-> Response_from_dict(codec.wire)]
    /\ UNCHANGED <<DispatcherVars, AuxVars>>

\* Response.from_dict applied to an inbound wire mapping
DecodeReply ==
    /\ codec.stage = "wire"
    /\ codec.kind = "reply"
    /\ codec' = [stage |-> "decoded", kind |-> "reply", wire |-> codec.wire,
                 back |-> Response_from_dict(codec.wire)]
    /\ UNCHANGED <<DispatcherVars, AuxVars>>

NextCodec ==
    \/ EncodeCommand
    \/ DecodeCommand
    \/ EncodeResponse
    \/ DecodeResponse
    \/ DecodeReply

SpecCodec == InitCodec /\ [][NextCodec]_vars

---------------------------------------------------------------------------
(* The Connection Manager on its own: its methods called by two coroutines *)

InitClient ==
    /\ DispatcherAfter(0, 0, 0, 0)
    /\ codec = CodecOff
    /\ probe = NoProbe
    /\ steps_left = ClientCalls
    /\ ClientAfterInit(ClientFails, ClientFrames)

TaskStep(t) ==
    \/ ConnectResolve(t)
    \/ DisconnectResolve(t)
    \/ SendCommandSent(t)
    \/ SendCommandReceived(t)
    \/ ReconnectLoopResolve(t)
    \/ ReconnectLoopWake(t)
    \/ TaskReturn(t)

NextClient ==
    \/ \E t \in Tasks : ConnectCall(t)
    \/ \E t \in Tasks : DisconnectCall(t)
    \/ \E t \in Tasks : SendCommandCall(t)
    \/ \E t \in Tasks : ReconnectLoopCall(t)
    \/ \E t \in Tasks : TaskStep(t)
    \/ RemoteSend

SpecClient == InitClient /\ [][NextClient]_vars

\* the event loop runs every coroutine that can go on; a connect attempt, a
\* send, a receive (30 s timeout) and a sleep all come to an end
InitClientFair ==
    /\ DispatcherAfter(0, 0, 0, 0)
    /\ codec = CodecOff
    /\ probe = NoProbe
    /\ steps_left = FairClientCalls
    /\ ClientAfterInit(FairClientFails, FairClientFrames)

SpecClientFair ==
    /\ InitClientFair
    /\ [][NextClient]_vars
    /\ \A t \in Tasks : WF_vars(TaskStep(t))

---------------------------------------------------------------------------
(* The receive loop of a connected manager and its handlers *)

\* a GodotAIClient whose connect() has succeeded; no handler is registered yet
InitRecv ==
    /\ DispatcherAfter(0, 0, 0, 0)
    /\ codec = CodecOff
    /\ probe = NoProbe
    /\ steps_left = RecvCalls
    /\ connected = TRUE
    /\ websocket = Some(1)
    /\ tasks = [t \in Tasks |-> IdleTask]
    /\ inbound = <<>>
    /\ outbound = <<>>
    /\ net = [handle |-> 1, answered |-> 0, fails_left |-> 0, frames_left |-> RecvFrames,
              errors_left |-> Unlimited, closed |-> 0]
    /\ NoCalls
    /\ message_handlers = <<>>
    /\ deliveries = <<>>

\* the receive loop is one background coroutine, started again when it has ended
NextRecv ==
    \/ ReceiveMessagesCall("t1")
    \/ ReceiveMessagesNext("t1")
    \/ TaskReturn("t1")
    \/ AddMessageHandler
    \/ RemoveMessageHandler
    \/ RemotePush

SpecRecv == InitRecv /\ [][NextRecv]_vars

---------------------------------------------------------------------------
(* The life cycle of the connection: every method of the manager, interleaved *)

InitLife ==
    /\ DispatcherAfter(0, 0, 0, 0)
    /\ codec = CodecOff
    /\ probe = NoProbe
    /\ steps_left = LifeCalls
    /\ ClientAfterInit(LifeFails, LifeFrames)

NextLife ==
    \/ \E t \in Tasks : ConnectCall(t)
    \/ \E t \in Tasks : DisconnectCall(t)
    \/ \E t \in Tasks : SendCommandCall(t)
    \/ \E t \in Tasks : ReconnectLoopCall(t)
    \/ \E t \in Tasks : ReceiveMessagesCall(t)
    \/ \E t \in Tasks : TaskStep(t)
    \/ \E t \in Tasks : ReceiveMessagesNext(t)
    \/ RemoteSend

SpecLife == InitLife /\ [][NextLife]_vars

---------------------------------------------------------------------------
(* Several execute_command calls on one connected manager *)

\* a GodotAIClient whose connect() has succeeded, and a fresh dispatcher on it;
\* as many execute_command calls are made as there are callers
InitConc ==
    /\ DispatcherAfter(0, Cardinality(Tasks), 0, 0)
    /\ codec = CodecOff
    /\ probe = NoProbe
    /\ steps_left = 0
    /\ connected = TRUE
    /\ websocket = Some(1)
    /\ tasks = [t \in Tasks |-> IdleTask]
    /\ inbound = <<>>
    /\ outbound = <<>>
    /\ net = [handle |-> 1, answered |-> 0, fails_left |-> 0, frames_left |-> ConcFrames,
              errors_left |-> ConcErrors, closed |-> 0]
    /\ NoCalls
    /\ message_handlers = <<>>
    /\ deliveries = <<>>

\* the coroutine-local variables of the single-call runs are not in use
ConcFrame ==
    UNCHANGED <<pc, mode, command, attempts, response, delay, result, commands,
                batch_idx, results, replies_left, fails_left, sleeps, seen, fresh,
                call_logs, batch_sent, batch_returned, codec, probe, steps_left,
                HandlerVars>>

Running(c) == callers[c].pc \in {"send", "await", "sleep"}

\* each caller has a command of its own, with the request_id it chose
CallerCommand(c) ==
    [action |-> "add_node", parameters |-> EmptyDict, auto_run |-> FALSE,
     request_id |-> IF c = "t1" THEN "a" ELSE "b"]

\* caller c invokes execute_command(cmd): lines 423-428
ConcExecuteCommand(c) ==
    /\ callers[c].pc = "idle"
    /\ calls_left > 0
    /\ calls_left' = calls_left - 1
    /\ LET cmd == CallerCommand(c)
       IN /\ callers' = [callers EXCEPT ![c] =
                            [IdleCall EXCEPT !.pc = "send", !.command = cmd]]
          /\ pending_commands' = Put(pending_commands, cmd.request_id, cmd)
    /\ xhist' = [xhist EXCEPT !.overlap = @ \/ (\E d \in Tasks \ {c} : Running(d))]
    /\ UNCHANGED <<retry_count, retry_history, command_history, clock, ClientVars>>
    /\ ConcFrame

\* lines 429-432: the next loop iteration, into send_command up to its first await
ConcSendCommand(c) ==
    /\ callers[c].pc = "send"
    /\ tasks[c].pc = "idle"
    /\ callers' = [callers EXCEPT ![c].pc = "await", ![c].attempts = Sat(@ + 1)]
    /\ SendCommandStart(c, callers[c].command)
    /\ UNCHANGED <<retry_count, retry_history, pending_commands, command_history, clock,
                   calls_left, connected, websocket, inbound, outbound, net, xhist>>
    /\ ConcFrame

\* send_command has returned to caller c: the loop body to the next suspension
ConcReply(c) ==
    /\ callers[c].pc = "await"
    /\ tasks[c].op = "send_command"
    /\ tasks[c].pc = "done"
    /\ LET resp == tasks[c].ret
           out == LoopBodyOf(callers[c].command, callers[c].attempts, callers[c].delay, resp)
       IN /\ retry_count' = out.retry_count
          /\ retry_history' = out.retry_history
          /\ command_history' = out.command_history
          /\ clock' = out.clock
          /\ callers' = [callers EXCEPT ![c].pc = out.pc, ![c].response = resp,
                                    ![c].delay = out.delay, ![c].result = out.result,
                                    ![c].got = tasks[c].got, ![c].at = tasks[c].at]
    /\ tasks' = [tasks EXCEPT ![c] = IdleTask]
    /\ xhist' = [xhist EXCEPT !.gave_up = @ \/ (tasks[c].sent = 1 /\ tasks[c].why # "reply")]
    /\ UNCHANGED <<pending_commands, calls_left, connected, websocket, inbound, outbound,
                   net>>
    /\ ConcFrame

\* asyncio.sleep(delay) is over: `continue`
ConcWake(c) ==
    /\ callers[c].pc = "sleep"
    /\ callers' = [callers EXCEPT ![c].pc = "send"]
    /\ UNCHANGED <<retry_count, retry_history, pending_commands, command_history, clock,
                   calls_left, ClientVars, xhist>>
    /\ ConcFrame

\* execute_command hands its Response to caller c
ConcReturn(c) ==
    /\ callers[c].pc = "returned"
    /\ callers' = [callers EXCEPT ![c] = IdleCall]
    /\ UNCHANGED <<retry_count, retry_history, pending_commands, command_history, clock,
                   calls_left, ClientVars, xhist>>
    /\ ConcFrame

NextConc ==
    \/ \E c \in Tasks : ConcExecuteCommand(c)
    \/ \E c \in Tasks : ConcSendCommand(c)
    \/ \E c \in Tasks : SendCommandSent(c)
    \/ \E c \in Tasks : SendCommandReceived(c)
    \/ \E c \in Tasks : ConcReply(c)
    \/ \E c \in Tasks : ConcWake(c)
    \/ \E c \in Tasks : ConcReturn(c)
    \/ RemoteSend

SpecConc == InitConc /\ [][NextConc]_vars

---------------------------------------------------------------------------
(* Performance Analyzer *)

THRESHOLDS ==
    [fps_min |-> 30, fps_warning |-> 45,
     draw_calls_max |-> 5000, draw_calls_warning |-> 3000,
     node_count_max |-> 2000, node_count_warning |-> 1500,
     memory_max_mb |-> 512]

\* one entry of `issues` or `warnings`; the message is its text and the
\* number formatted into it
Finding(metric, value, threshold, text) ==
    [metric |-> metric, value |-> value, threshold |-> threshold,
     message |-> <<text, value>>]

\* `sub in s` for the status strings "ok" and "critical"
Contains(s, sub) == s = sub

CheckFps(analysis, fps) ==
    IF fps < THRESHOLDS.fps_min
    THEN [analysis EXCEPT
            !.status = "critical",
            !.issues = Append(@, Finding("fps", fps, THRESHOLDS.fps_min, "Critical FPS"))]
    ELSE IF fps < THRESHOLDS.fps_warning
    THEN [analysis EXCEPT
            !.warnings = Append(@, Finding("fps", fps, THRESHOLDS.fps_warning, "Low FPS"))]
    ELSE analysis

\* faulty variant: a draw-call warning is dropped once the status is critical
CheckDrawCalls_mut(analysis, draw_calls) ==
    IF draw_calls > THRESHOLDS.draw_calls_max
    THEN [analysis EXCEPT
            !.status = "critical",
            !.issues = Append(@, Finding("draw_calls", draw_calls,
                                         THRESHOLDS.draw_calls_max, "Critical draw calls"))]
    ELSE IF draw_calls > THRESHOLDS.draw_calls_warning /\ analysis.status = "ok"
    THEN [analysis EXCEPT
            !.warnings = Append(@, Finding("draw_calls", draw_calls,
                                           THRESHOLDS.draw_calls_warning, "High draw calls"))]
    ELSE analysis

CheckDrawCalls(analysis, draw_calls) ==
    IF draw_calls > THRESHOLDS.draw_calls_max
    THEN [analysis EXCEPT
            !.status = IF analysis.status # "critical" THEN "critical" ELSE "critical",
            !.issues = Append(@, Finding("draw_calls", draw_calls,
                                         THRESHOLDS.draw_calls_max, "Critical draw calls"))]
    ELSE IF draw_calls > THRESHOLDS.draw_calls_warning
    THEN IF ~Contains(analysis.status, "warning")
         THEN [analysis EXCEPT
                 !.warnings = Append(@, Finding("draw_calls", draw_calls,
                                                THRESHOLDS.draw_calls_warning,
                                                "High draw calls"))]
         ELSE analysis
    ELSE analysis

CheckNodeCount(analysis, node_count) ==
    IF node_count > THRESHOLDS.node_count_max
    THEN [analysis EXCEPT
            !.status = IF analysis.status # "critical" THEN "critical" ELSE "critical",
            !.issues = Append(@, Finding("node_count", node_count,
                                         THRESHOLDS.node_count_max, "Critical node count"))]
    ELSE IF node_count > THRESHOLDS.node_count_warning
    THEN [analysis EXCEPT
            !.warnings = Append(@, Finding("node_count", node_count,
                                           THRESHOLDS.node_count_warning, "High node count"))]
    ELSE analysis

IssueArea(metric) == IF metric = "fps" THEN "frame_rate" ELSE metric

_generate_recommendations(analysis) ==
    [i \in 1..Len(analysis.issues) |->
        [priority |-> "high", area |-> IssueArea(analysis.issues[i].metric),
         message |-> <<"advice", 0>>]]
    \o [i \in 1..Len(analysis.warnings) |->
        [priority |-> "medium", area |-> analysis.warnings[i].metric,
         message |-> <<"Monitor", analysis.warnings[i].value>>]]

analyze(report) ==
    LET a0 == [status |-> "ok", issues |-> <<>>, warnings |-> <<>>,
               recommendations |-> <<>>]
        fps == Get(report, "fps", 60)
        draw_calls == Get(report, "draw_calls", 0)
        node_count == Get(report, "node_count", 0)
        memory_mb == Get(report, "memory_usage_mb", 0)
        a1 == CheckFps(a0, fps)
        a2 == CheckDrawCalls(a1, draw_calls)
        a3 == CheckNodeCount(a2, node_count)
    IN [a3 EXCEPT !.recommendations = _generate_recommendations(a3)]

\* values a report may hold under a key
ReportValues(k) ==
    IF k = "fps" THEN {20, 29, 30, 40, 44, 45, 60}
    ELSE IF k = "draw_calls" THEN {0, 3000, 3001, 5000, 5001}
    ELSE IF k = "node_count" THEN {1500, 1501, 2000, 2001}
    ELSE {600}

RECURSIVE Reports(_)
Reports(keys) ==
    IF keys = {} THEN {EmptyDict}
    ELSE LET k == CHOOSE x \in keys : TRUE
             rest == Reports(keys \ {k})
         IN rest \cup { Put(d, k, v) : d \in rest, v \in ReportValues(k) }

InitAnalyzer ==
    /\ DispatcherAfter(0, 0, 0, 0)
    /\ codec = CodecOff
    /\ ClientAfterInit(0, 0)
    /\ steps_left = 1
    /\ probe \in { [op |-> "report", report |-> r] :
                      r \in Reports({"fps", "draw_calls", "node_count", "memory_usage_mb"}) }

\* AICommandDispatcher.analyze_performance(report)
AnalyzePerformance ==
    /\ probe.op = "report"
    /\ steps_left > 0
    /\ steps_left' = steps_left - 1
    /\ probe' = [op |-> "analyze", report |-> probe.report, value |-> analyze(probe.report)]
    /\ UNCHANGED <<DispatcherVars, codec, ClientVars, CallVars, HandlerVars>>

NextAnalyzer == AnalyzePerformance

SpecAnalyzer == InitAnalyzer /\ [][NextAnalyzer]_vars

---------------------------------------------------------------------------
(* The Retry Engine on its own: its methods called directly, in any order *)

EngineIds == {"a", "b"}

EngineResponse == Response_from_dict([status |-> "error", type |-> "compile"])

\* the engine's fields as a method call finds them
Before == [retry_count |-> retry_count, history_len |-> Len(retry_history)]

InitEngine ==
    /\ DispatcherAfter(0, 0, 0, 0)
    /\ codec = CodecOff
    /\ probe = NoProbe
    /\ steps_left = EngineSteps
    /\ ClientAfterInit(0, 0)

EngineFrame ==
    UNCHANGED <<pending_commands, command_history, pc, mode, command, attempts,
                response, delay, result, commands, batch_idx, results, calls_left,
                replies_left, fails_left, sleeps, seen, fresh, call_logs, batch_sent,
                batch_returned, codec, ClientVars, CallVars, HandlerVars>>

ShouldRetry ==
    /\ steps_left > 0
    /\ \E id \in EngineIds :
         probe' = [op |-> "should_retry", request_id |-> id, before |-> Before,
                   value |-> should_retry(retry_count, id)]
    /\ steps_left' = steps_left - 1
    /\ UNCHANGED <<retry_count, retry_history, clock>>
    /\ EngineFrame

GetRetryDelay ==
    /\ steps_left > 0
    /\ \E id \in EngineIds :
         probe' = [op |-> "get_retry_delay", request_id |-> id, before |-> Before,
                   value |-> get_retry_delay(retry_count, id)]
    /\ steps_left' = steps_left - 1
    /\ UNCHANGED <<retry_count, retry_history, clock>>
    /\ EngineFrame

RecordAttempt ==
    /\ steps_left > 0
    /\ \E id \in EngineIds :
         LET rec == record_attempt(retry_count, retry_history, clock + 1, id,
                                   [OldCommand EXCEPT !.request_id = id], EngineResponse)
         IN /\ retry_count' = rec.retry_count
            /\ retry_history' = rec.retry_history
            /\ clock' = clock + 1
            /\ probe' = [op |-> "record_attempt", request_id |-> id, before |-> Before,
                         value |-> None]
    /\ steps_left' = steps_left - 1
    /\ EngineFrame

Reset ==
    /\ steps_left > 0
    /\ \E id \in EngineIds :
         /\ retry_count' = reset(retry_count, id)
         /\ probe' = [op |-> "reset", request_id |-> id, before |-> Before,
                      value |-> None]
    /\ steps_left' = steps_left - 1
    /\ UNCHANGED <<retry_history, clock>>
    /\ EngineFrame

GetRetryInfo ==
    /\ steps_left > 0
    /\ \E id \in EngineIds :
         probe' = [op |-> "get_retry_info", request_id |-> id, before |-> Before,
                   value |-> get_retry_info(retry_count, id)]
    /\ steps_left' = steps_left - 1
    /\ UNCHANGED <<retry_count, retry_history, clock>>
    /\ EngineFrame

NextEngine ==
    \/ ShouldRetry
    \/ GetRetryDelay
    \/ RecordAttempt
    \/ Reset
    \/ GetRetryInfo

SpecEngine == InitEngine /\ [][NextEngine]_vars

---------------------------------------------------------------------------
(* Properties *)

InCall == {"send", "await", "sleep"}

IsOtherError(resp) ==
    /\ resp # None
    /\ is_error(resp[1])
    /\ resp[1].error_type \notin {"compile", "runtime"}

\* C1 (as claimed): every execute_command call eventually returns a Response,
\* whatever the outcomes of its sends are.
C1_AlwaysReturns == (pc = "send") ~> (pc = "returned")

\* C2 (as claimed): while every send of a call has yielded no response, the
\* command has been sent at most 1 + MAX_RETRIES times, and a call that returns
\* then returns the synthesized communication error.
C2_BoundedResend ==
    (pc \in InCall \cup {"returned"} /\ seen \subseteq {"none"}) =>
        /\ attempts <= MAX_RETRIES + 1
        /\ pc = "returned" => result = Some(CommunicationFailure)

\* C3 (as claimed): a call with a fresh request_id whose every send was answered
\* by a compile error returns after 6 sends (5 retries), with the last reply.
C3_SixSends ==
    (pc = "returned" /\ fresh /\ seen = {"compile"}) =>
        /\ attempts = MAX_RETRIES + 1
        /\ result = response

\* C3 (amended): a call with a fresh request_id whose every send was answered by
\* a compile error sends the command at most MAX_RETRIES = 5 times, and returns
\* after exactly 5 sends and 4 backoff sleeps (4 retries) with the last reply
\* unchanged.
C3_FiveSends ==
    (pc \in InCall \cup {"returned"} /\ fresh /\ seen = {"compile"}) =>
        /\ attempts <= MAX_RETRIES
        /\ pc = "returned" =>
              /\ attempts = MAX_RETRIES
              /\ sleeps = MAX_RETRIES - 1
              /\ result = response
              /\ Kind(result) = "compile"

C3_Witness == pc = "returned" /\ fresh /\ seen = {"compile"} /\ attempts = MAX_RETRIES

\* C4: once send_command has returned an error reply whose error_type is neither
\* compile nor runtime, execute_command has returned that very reply: it neither
\* sleeps nor sends again; if it was the call's first outcome, the command was
\* sent exactly once and the call never slept.
C4_NonRetryable ==
    IsOtherError(response) =>
        /\ pc = "returned"
        /\ result = response
        /\ seen = {"other"} => (attempts = 1 /\ sleeps = 0)

C4_Witness ==
    /\ IsOtherError(response)
    /\ pc = "returned"
    /\ fresh
    /\ attempts = 1
    /\ response[1].error_type = "invalid_syntax"

\* C5: execute_batch runs the commands in list order, one at a time; its result
\* list is exactly what the execute_command calls returned, in order; only the
\* last result can be an error, and then the batch is over; the commands handed
\* to send_command are those of the results plus the one being executed, so no
\* command after the first failing one is ever sent.
C5_BatchStopsAtError ==
    mode = "batch" =>
        /\ results = batch_returned
        /\ \A i \in 1..Len(results) :
              is_error(results[i]) => (i = Len(results) /\ pc = "batch_done")
        /\ pc # "batch_done" =>
              /\ batch_idx = Len(results) + 1
              /\ batch_idx <= Len(commands)
              /\ command = commands[batch_idx]
              /\ batch_sent \in {1..batch_idx, 1..(batch_idx - 1)}
        /\ pc = "batch_done" =>
              /\ batch_sent = 1..Len(results)
              /\ \/ Len(results) = Len(commands)
                 \/ (results # <<>> /\ is_error(results[Len(results)]))

C5_Witness ==
    /\ mode = "batch"
    /\ pc = "batch_done"
    /\ Len(commands) = 2
    /\ Len(results) = 1
    /\ is_error(results[1])
    /\ batch_sent = {1}

\* C6 (as claimed): when execute_command returns, its request_id is no longer in
\* pending_commands, and pending_commands is empty whenever no call is in progress.
C6_PendingCleared ==
    /\ pc = "returned" => command.request_id \notin DOMAIN pending_commands
    /\ pc \in {"idle", "batch_done"} => DOMAIN pending_commands = {}

\* C7 (as claimed): a call that returns has appended exactly one entry to
\* command_history, and that entry records the returned response.
C7_OneEntryPerReturn ==
    pc = "returned" =>
        /\ call_logs = 1
        /\ command_history # <<>>
        /\ command_history[Len(command_history)].response = Response_to_dict(result[1])

\* C8: command_history never holds more than 1000 entries; only a step that
\* calls _log_command changes it: it appends one entry, and when the history was
\* full it drops exactly the oldest entry, so that the others keep their order
\* and the new entry comes last.
C8_RingBuffer ==
    /\ Len(command_history) <= HISTORY_MAX
    /\ [][ /\ Len(command_history') <= HISTORY_MAX
           /\ call_logs' # call_logs + 1 => command_history' = command_history
           /\ call_logs' = call_logs + 1 =>
                /\ command_history' # <<>>
                /\ command_history'[Len(command_history')].timestamp = clock'
                /\ command_history'[Len(command_history')].response
                       = Response_to_dict(result'[1])
                /\ SubSeq(command_history', 1, Len(command_history') - 1)
                       = IF Len(command_history) = HISTORY_MAX
                         THEN Tail(command_history)
                         ELSE command_history ]_vars

C8_Witness ==
    /\ Len(command_history) = HISTORY_MAX
    /\ command_history[1].timestamp = 4
    /\ command_history[HISTORY_MAX].timestamp = clock
    /\ clock > 2 * HISTORY_MAX
    /\ pc = "returned"

\* C9: decoding the encoding of a Command gives the Command back when none of
\* its parameter keys is action, auto_run or request_id; an empty request_id and
\* empty parameters are included.
C9_CommandRoundTrip ==
    (/\ codec.stage = "decoded"
     /\ codec.kind = "command"
     /\ DOMAIN codec.obj.parameters \cap CommandReserved = {}) =>
        codec.back = codec.obj

C9_Witness ==
    /\ codec.stage = "decoded"
    /\ codec.kind = "command"
    /\ codec.obj.request_id = ""
    /\ codec.obj.parameters = EmptyDict
    /\ codec.obj.auto_run
    /\ "request_id" \notin DOMAIN codec.wire
    /\ codec.back = codec.obj

\* C10 (as claimed): decoding the encoding of a Response gives the Response back
\* when none of its data keys is status, action, error, type or error_details;
\* error_type comes back as error_type and not as a data field.
C10_ResponseRoundTrip ==
    (/\ codec.stage = "decoded"
     /\ codec.kind = "response"
     /\ DOMAIN codec.obj.data \cap ResponseReserved = {}) =>
        /\ codec.back = codec.obj
        /\ codec.back.error_type = codec.obj.error_type
        /\ DOMAIN codec.back.data = DOMAIN codec.obj.data

\* C11 (as claimed): Response.from_dict yields a status among success, error
\* and unknown for every wire mapping: a missing status and any status other
\* than success or error both decode to unknown.
C11_StatusEnum ==
    (codec.stage = "decoded" /\ codec.kind = "reply") =>
        /\ codec.back.status \in {"success", "error", "unknown"}
        /\ "status" \notin DOMAIN codec.wire => codec.back.status = "unknown"
        /\ Get(codec.wire, "status", "") \notin {"success", "error"} =>
               codec.back.status = "unknown"

\* what the delay table of the backoff gives for an attempt count
DelayTable(n) ==
    IF n = 0 THEN 1 ELSE IF n = 1 THEN 2 ELSE IF n = 2 THEN 4 ELSE IF n = 3 THEN 8 ELSE 10

\* C12: get_retry_delay(id) is 1, 2, 4, 8, 10 for the attempt counts 0..4 of id
\* (an absent id counts as 0) and 10 for every count of 5 or more, and the call
\* leaves retry_count and retry_history as they were.
C12_DelayTable ==
    probe.op = "get_retry_delay" =>
        /\ probe.value = DelayTable(Get(probe.before.retry_count, probe.request_id, 0))
        /\ probe.value <= RETRY_DELAY_MAX
        /\ retry_count = probe.before.retry_count
        /\ Len(retry_history) = probe.before.history_len

C12_Witness ==
    /\ probe.op = "get_retry_delay"
    /\ probe.request_id \in DOMAIN retry_count
    /\ retry_count[probe.request_id] = MAX_RETRIES + 1
    /\ probe.value = RETRY_DELAY_MAX

SendFailures == {"timeout", "send_exception", "recv_exception", "decode_exception"}

\* C13 (as claimed): once a send_command call on a connected manager has failed
\* with a transport exception or the timeout, the manager is Disconnected:
\* its connected flag is false.
C13_SendFailureDisconnects ==
    \A t \in Tasks :
        (/\ tasks[t].op = "send_command"
         /\ tasks[t].pc = "done"
         /\ tasks[t].why \in {"timeout", "send_exception", "recv_exception"}) =>
            ~connected

\* C14: send_command always hands a value back: None, with nothing written
\* to the socket, exactly when the manager was not connected or had no handle at
\* the call; None after the timeout, a transport exception or a frame that does
\* not decode; and otherwise Response.from_dict of the frame it took, which was
\* the next inbound frame.
C14_SendCommandTotal ==
    /\ [] \A t \in Tasks :
          (tasks[t].op = "send_command" /\ tasks[t].pc = "done") =>
              /\ tasks[t].why \in SendFailures \cup {"not_connected", "reply"}
              /\ tasks[t].why = "not_connected" <=> ~tasks[t].ready
              /\ tasks[t].why = "not_connected" => (tasks[t].ret = None /\ tasks[t].sent = 0)
              /\ tasks[t].why \in SendFailures => tasks[t].ret = None
              /\ tasks[t].why = "reply" =>
                     /\ tasks[t].got.kind = "json"
                     /\ tasks[t].sent = 1
                     /\ tasks[t].ret = Some(Response_from_dict(tasks[t].got.wire))
    /\ [][ \A t \in Tasks :
              (tasks[t].pc = "receiving" /\ tasks'[t].pc = "done"
                 /\ tasks'[t].why \in {"reply", "decode_exception"}) =>
                  (inbound # <<>> /\ tasks'[t].got = Head(inbound)
                     /\ inbound' = Tail(inbound)) ]_vars

C14_Witness ==
    \E t \in Tasks : \E u \in Tasks :
        /\ tasks[t].op = "send_command" /\ tasks[t].pc = "done"
        /\ tasks[t].why = "timeout" /\ tasks[t].ret = None
        /\ tasks[u].op = "send_command" /\ tasks[u].pc = "done"
        /\ tasks[u].why = "reply" /\ tasks[u].ret # None
        /\ is_error(tasks[u].ret[1])

\* C15: reconnect_loop calls connect() only while the manager is not
\* connected, and not at all when it was connected at the call; every failed
\* connect() is followed by one sleep of RECONNECT_DELAY = 2 and another test;
\* the loop ends only in a step that leaves the manager connected, however
\* many attempts that takes; and when connect() stops failing the loop ends.
C15_ReconnectLoop ==
    /\ [](\A t \in Tasks :
            tasks[t].op = "reconnect_loop" =>
                /\ tasks[t].ready <=> tasks[t].connects = 0
                /\ tasks[t].pc = "connecting" => tasks[t].connects = tasks[t].sleeps + 1
                /\ tasks[t].pc = "sleeping" => tasks[t].connects = tasks[t].sleeps
                /\ tasks[t].sleeps > 0 => tasks[t].slept = RECONNECT_DELAY)
    /\ [][ \A t \in Tasks :
              /\ (tasks'[t].op = "reconnect_loop" /\ tasks'[t].pc = "done"
                     /\ tasks[t].pc # "done") => connected'
              /\ (tasks'[t].op = "reconnect_loop" /\ tasks'[t].pc = "connecting"
                     /\ tasks[t].pc # "connecting") => ~connected ]_vars
    /\ \A t \in Tasks :
          (tasks[t].op = "reconnect_loop") ~> (tasks[t].pc = "done")

C15_Witness ==
    \E t \in Tasks :
        /\ tasks[t].op = "reconnect_loop"
        /\ tasks[t].pc = "done"
        /\ tasks[t].connects = FairClientFails + 1
        /\ tasks[t].sleeps = FairClientFails
        /\ connected

\* the entries of a list of findings that are about a metric
About(findings, metric) == { i \in 1..Len(findings) : findings[i].metric = metric }

\* C16: analyze classifies fps, draw_calls and node_count each on its own: one
\* issue if the value is critical (fps < 30, draw_calls > 5000, node_count >
\* 2000), else one warning if it crosses the warning threshold (fps < 45,
\* draw_calls > 3000, node_count > 1500), else nothing; the status is critical
\* iff there is an issue, and ok otherwise, warnings or not.
C16_Analyze ==
    probe.op = "analyze" =>
        LET r == probe.report
            a == probe.value
            fps == IF "fps" \in DOMAIN r THEN r["fps"] ELSE 60
            dc == IF "draw_calls" \in DOMAIN r THEN r["draw_calls"] ELSE 0
            nc == IF "node_count" \in DOMAIN r THEN r["node_count"] ELSE 0
            Is(metric, critical, warning) ==
                /\ Cardinality(About(a.issues, metric)) = (IF critical THEN 1 ELSE 0)
                /\ Cardinality(About(a.warnings, metric))
                       = (IF ~critical /\ warning THEN 1 ELSE 0)
        IN /\ Is("fps", fps < 30, fps < 45)
           /\ Is("draw_calls", dc > 5000, dc > 3000)
           /\ Is("node_count", nc > 2000, nc > 1500)
           /\ a.status = (IF a.issues # <<>> THEN "critical" ELSE "ok")
           /\ Len(a.issues) + Len(a.warnings) <= 3

C16_Witness ==
    /\ probe.op = "analyze"
    /\ probe.report = [fps |-> 20, draw_calls |-> 3001, node_count |-> 1500]
    /\ probe.value.status = "critical"
    /\ Len(probe.value.issues) = 1
    /\ Len(probe.value.warnings) = 1
    /\ probe.value.warnings[1].metric = "draw_calls"

\* C17: when execute_command returns a success reply, the Retry Engine holds no
\* counter for the call's request_id: get_retry_info reports current_attempt = 0
\* and can_retry = true, however many error replies came before the success.
C17_ResetAfterSuccess ==
    (pc = "returned" /\ result # None /\ is_success(result[1])) =>
        /\ command.request_id \notin DOMAIN retry_count
        /\ get_retry_info(retry_count, command.request_id).current_attempt = 0
        /\ get_retry_info(retry_count, command.request_id).can_retry

C17_Witness ==
    /\ pc = "returned"
    /\ result # None
    /\ is_success(result[1])
    /\ seen = {"compile", "success"}
    /\ attempts = MAX_RETRIES
    /\ get_retry_info(retry_count, command.request_id).current_attempt = 0

\* C18 (as claimed): within one call, the command is sent again only after a
\* backoff sleep that followed the previous attempt, so a call about to send
\* again has slept once per attempt made, and the previous attempt ended in a
\* communication failure or in a compile/runtime error reply.
C18_SleepBeforeResend ==
    (pc = "send" /\ attempts > 0) =>
        /\ sleeps = attempts
        /\ Kind(response) \in {"none", "compile", "runtime"}
        /\ delay = get_retry_delay(retry_count, command.request_id)

\* C19: the attempt count of a request_id only grows, by one per reply received
\* for it, until a success reply for that id removes it; starting a call with
\* the id, and a call ending in a terminal error, leave it in place, and the
\* permission to retry and the backoff delay are computed from the count as it
\* stands.
C19_CountRetained ==
    [][ LET rid == command.request_id
            replied == pc = "await" /\ response' # None
        IN /\ \A id \in DOMAIN retry_count :
                 IF id \in DOMAIN retry_count'
                 THEN retry_count'[id] >= retry_count[id]
                 ELSE replied /\ id = rid /\ is_success(response'[1])
                        /\ pc' = "returned"
           /\ ~replied => retry_count' = retry_count
           /\ (replied /\ ~is_success(response'[1])) =>
                 retry_count' = Put(retry_count, rid, Get(retry_count, rid, 0) + 1)
           /\ (replied /\ pc' = "sleep") =>
                 /\ retry_count'[rid] < MAX_RETRIES
                 /\ delay' = Min(Pow2(retry_count'[rid]), RETRY_DELAY_MAX)
           /\ (replied /\ is_error(response'[1]) /\ retry_count'[rid] >= MAX_RETRIES) =>
                 pc' = "returned" ]_vars

C19_Witness ==
    /\ pc = "sleep"
    /\ ~fresh
    /\ attempts = 1
    /\ Kind(response) = "compile"
    /\ retry_count[command.request_id] = 2
    /\ delay = 4

\* caller c has been handed a reply frame by its execute_command call
GotReply(c) ==
    /\ callers[c].pc = "returned"
    /\ callers[c].got.kind = "json"
    /\ callers[c].result = callers[c].response

\* the request_id of the command the remote answered with the frame c took
AnsweredId(c) == outbound[callers[c].got.re]["request_id"]

C21_ReceiveLoop ==
    /\ [](\A i \in 1..Len(deliveries) :
            LET d == deliveries[i]
            IN IF d.frame.kind \in {"json", "list"}
               THEN /\ Len(d.calls) = Len(d.handlers)
                    /\ \A j \in 1..Len(d.calls) :
                          /\ d.calls[j].handler = d.handlers[j]
                          /\ d.calls[j].data.value = d.frame.wire
               ELSE d.calls = <<>>)
    /\ [][ \A t \in Tasks :
              /\ (tasks[t].pc = "iterating" /\ Len(deliveries') > Len(deliveries)) =>
                     tasks'[t].pc = "iterating"
              /\ (tasks[t].pc = "iterating" /\ tasks'[t].why = "ConnectionClosed") =>
                     (tasks'[t].pc = "done" /\ ~connected') ]_vars

\* C22 (as claimed): every reply received by execute_command makes the attempt
\* count of the call's request_id and the length of retry_history grow by one,
\* and nothing else changes either.
C22_OncePerReply ==
    [][ LET rid == command.request_id
            replied == pc = "await" /\ response' # None
        IN /\ replied =>
                 /\ Len(retry_history') = Len(retry_history) + 1
                 /\ Get(retry_count', rid, 0) = Get(retry_count, rid, 0) + 1
           /\ ~replied => (retry_count' = retry_count /\ retry_history' = retry_history)
      ]_vars

\* C22 (amended): record_attempt runs once for every reply received, whatever
\* its status, and never for a send without a reply nor for the synthesized
\* communication error: retry_history holds one entry per reply received, the
\* reply appends the entry that records it under the count raised by one, a
\* reply other than success leaves the count raised by one, a success reply
\* then removes the count, and every other step leaves both as they were.
C22_RecordedPerReply ==
    /\ [](Len(retry_history) = RecordReplies - replies_left)
    /\ [][ LET rid == command.request_id
               replied == pc = "await" /\ response' # None
           IN /\ replied =>
                    /\ Len(retry_history') = Len(retry_history) + 1
                    /\ SubSeq(retry_history', 1, Len(retry_history)) = retry_history
                    /\ retry_history'[Len(retry_history')].request_id = rid
                    /\ retry_history'[Len(retry_history')].response
                           = Response_to_dict(response'[1])
                    /\ retry_history'[Len(retry_history')].attempt
                           = Get(retry_count, rid, 0) + 1
                    /\ retry_count' = IF is_success(response'[1])
                                      THEN Without(retry_count, {rid})
                                      ELSE Put(retry_count, rid, Get(retry_count, rid, 0) + 1)
              /\ ~replied => (retry_count' = retry_count /\ retry_history' = retry_history)
              /\ (pc = "await" /\ result' = Some(CommunicationFailure)) =>
                    (response' = None /\ retry_history' = retry_history)
         ]_vars

C22_Witness ==
    /\ pc = "returned"
    /\ result = Some(CommunicationFailure)
    /\ response = None
    /\ Len(retry_history) = MAX_RETRIES
    /\ retry_count[command.request_id] = MAX_RETRIES

\* C24: whatever the interleaving of connect, disconnect, send_command,
\* receive_messages and reconnect_loop, a connected manager holds a handle; the
\* converse fails: a connect that fails and a ConnectionClosed signal both set
\* connected to false and leave the handle the manager held where it was.
C24_ConnectedHasHandle ==
    /\ [](connected => websocket # None)
    /\ [][ \A t \in Tasks :
              /\ (tasks[t].pc = "connecting" /\ tasks'[t].pc # "connecting"
                     /\ ~connected') => websocket' = websocket
              /\ (tasks[t].pc = "iterating" /\ tasks'[t].why = "ConnectionClosed") =>
                     (~connected' /\ websocket' = websocket) ]_vars

C24_Witness ==
    \E t \in Tasks : \E u \in Tasks :
        /\ tasks[t].op = "receive_messages"
        /\ tasks[t].why = "ConnectionClosed"
        /\ tasks[t].ws = websocket
        /\ tasks[u].op = "connect"
        /\ tasks[u].ret = Some(FALSE)
        /\ ~connected
        /\ websocket # None

\* C23: a reply whose status is neither success nor error is never what
\* execute_command returns and never enters command_history: the step that
\* receives it records the attempt and goes straight to the next send, with no
\* sleep and whatever the attempt count is, so that the count of the request_id
\* can pass MAX_RETRIES.
C23_UnknownStatusResent ==
    /\ [](pc = "returned" => Kind(result) # "unknown")
    /\ [](\A i \in 1..Len(command_history) :
             command_history[i].response["status"] \in {"success", "error"})
    /\ [][ (pc = "await" /\ Kind(response') = "unknown") =>
              /\ pc' = "send"
              /\ result' = None
              /\ sleeps' = sleeps
              /\ delay' = delay
              /\ command_history' = command_history
              /\ Len(retry_history') = Len(retry_history) + 1
              /\ retry_count' = Put(retry_count, command.request_id,
                                    Get(retry_count, command.request_id, 0) + 1) ]_vars

C23_Witness ==
    /\ pc = "send"
    /\ seen = {"unknown"}
    /\ attempts = MAX_RETRIES + 1
    /\ sleeps = 0
    /\ retry_count[command.request_id] = MAX_RETRIES + 1
    /\ ~should_retry(retry_count, command.request_id)
    /\ command_history = <<>>

====
